---- MODULE Spec2Model ----
(***************************************************************************)
(* RSS -> rewrite -> semantic dedup -> Telegram bot (src/main.py).         *)
(*                                                                         *)
(* Time is the value of datetime.utcnow() in whole seconds since the       *)
(* process was first started.  Similarities are in ten-thousandths         *)
(* (0.60 = 6000).  Texts are short strings; the embedding model is a fixed *)
(* table of integer vectors of norm 4, on which every float32 operation of *)
(* the cosine similarity is exact.                                         *)
(***************************************************************************)
EXTENDS Integers, Sequences, FiniteSets, TLC

\* ------------------------------------------------------------ constants
MAX_HISTORY_HOURS == 24
\* DUPLICATE_THRESHOLD = 0.60, in ten-thousandths
DUPLICATE_THRESHOLD == 6000
\* "if sent_in_this_round >= 3"
BurstLimit == 3
\* "await asyncio.sleep(30)"
PaceSeconds == 30
\* DELAY_SECONDS = int(os.getenv("DELAY_SECONDS")): the value configured here
DELAY_SECONDS == 60

\* ------------------------------------------------------------ bounds
\* calls of send_post that are explored
MaxAttempts == 5
\* days of clock time that are explored
MaxDays == 2
\* seconds an awaited network call (rewrite, publish) may take
MaxLatency == 1

Latency == 0 .. MaxLatency

\* timedelta(hours=h), in seconds
timedelta_hours(h) == h * 3600

\* feedparser.parse has no timeout: a fetch returns at once, or after a wait
\* that brings the oldest records to the edge of the history window
LongWait == timedelta_hours(MAX_HISTORY_HOURS) - PaceSeconds - 1

LongWaits == {LongWait + d : d \in Latency}

\* ------------------------------------------------------------ embeddings
\* model.encode(text): the frozen encoder as a table of float32 vectors.
\* Their components are small integers and their norm is 4, so that the
\* normalised components (multiples of 1/4), their products and the sums of
\* these are float32 numbers: torch computes the cosine without rounding.
encode(text) ==
    CASE text = "t0"  -> << 3, 2, 1, 1, 1 >>
      [] text = "t1"  -> << 2, 1, 3, -1, -1 >>
      [] text = "t2"  -> << 0, 0, 0, 4, 0 >>
      [] text = "t3"  -> << 0, 0, 0, 0, 4 >>
      [] text = "t4"  -> << -3, -2, -1, -1, -1 >>
      [] text = "t0x" -> << 3, 2, -1, -1, -1 >>
      [] text = ""    -> << 0, 4, 0, 0, 0 >>
      [] OTHER        -> << 4, 0, 0, 0, 0 >>

RECURSIVE Dot(_, _)
Dot(a, b) ==
    IF a = << >> THEN 0 ELSE Head(a) * Head(b) + Dot(Tail(a), Tail(b))

\* the norm of a vector whose norm is a power of two
Norm(a) == CHOOSE n \in {1, 2, 4, 8} : n * n = Dot(a, a)

\* util.pytorch_cos_sim(a, b).item(), in ten-thousandths: the float32 that
\* torch returns for vectors whose norm is a power of two, which is the
\* cosine itself (a multiple of 1/64 at most), read as a double by .item()
pytorch_cos_sim(a, b) == (Dot(a, b) * 10000) \div (Norm(a) * Norm(b))

\* ------------------------------------------------------------ is_duplicate
\* variant: no record is skipped for its age
OutsideWindowNever(now_, timestamp) == FALSE

\* line 64: the record is outside the window and is skipped
OutsideWindow(now_, timestamp) ==
    (now_ - timestamp) > timedelta_hours(MAX_HISTORY_HOURS)

\* variant: the threshold is 0.50
ExceedsThresholdHalf(similarity) == similarity > 5000

\* line 69
ExceedsThreshold(similarity) == similarity > DUPLICATE_THRESHOLD

RECURSIVE is_duplicate_from(_, _, _, _)
\* the for loop of is_duplicate, from record k on
is_duplicate_from(text, posts, now_, k) ==
    IF k > Len(posts) THEN FALSE
    ELSE IF OutsideWindow(now_, posts[k].timestamp)
         THEN is_duplicate_from(text, posts, now_, k + 1)
    ELSE IF ExceedsThreshold(pytorch_cos_sim(encode(text), encode(posts[k].text)))
         THEN TRUE
    ELSE is_duplicate_from(text, posts, now_, k + 1)

is_duplicate(text, posts, now_) == is_duplicate_from(text, posts, now_, 1)

\* ------------------------------------------------------------ history file
\* datetime.isoformat(): "D HH:MM:SS" as the fields day, hour, minute, second
isoformat(t) ==
    << t \div 86400, (t % 86400) \div 3600, (t % 3600) \div 60, t % 60 >>

\* variant: the date part of the string is not read back
fromisoformat_time_only(s) == s[2] * 3600 + s[3] * 60 + s[4]

\* datetime.fromisoformat()
fromisoformat(s) == s[1] * 86400 + s[2] * 3600 + s[3] * 60 + s[4]

NoFile == [state |-> "missing", data |-> << >>]

CorruptFile == [state |-> "corrupt", data |-> << >>]

\* sent_posts.json exists but open() raises on it: a directory of that name,
\* a file the process has no permission for
UnopenableFile == [state |-> "unopenable", data |-> << >>]

\* variant: records are kept for twice the window
IsFreshTwoWindows(p, cutoff) ==
    p.timestamp > cutoff - timedelta_hours(MAX_HISTORY_HOURS)

\* line 82: the record is kept
IsFresh(p, cutoff) == p.timestamp > cutoff

\* lines 88-93: the JSON array written to sent_posts.json
dump(posts) ==
    [state |-> "ok",
     data  |-> [k \in 1 .. Len(posts) |->
                  [text |-> posts[k].text,
                   timestamp |-> isoformat(posts[k].timestamp)]]]

\* variant: the new record is put in front of the history
save_post_record_prepends(posts, fl, text, now_, write) ==
    LET record == [text |-> text, timestamp |-> now_]
        cutoff == now_ - timedelta_hours(MAX_HISTORY_HOURS)
        fresh_posts == SelectSeq(<< record >> \o posts,
                                 LAMBDA p : IsFresh(p, cutoff))
    IN  [sent_posts |-> fresh_posts,
         file |-> CASE fl.state = "unopenable" -> fl
                    [] write = "ok" -> dump(fresh_posts)
                    [] write = "partial" -> CorruptFile
                    [] OTHER -> fl]

\* variant: a failed write takes the new record out of memory again
save_post_record_rolls_back(posts, fl, text, now_, write) ==
    LET record == [text |-> text, timestamp |-> now_]
        cutoff == now_ - timedelta_hours(MAX_HISTORY_HOURS)
        fresh_posts == SelectSeq(Append(posts, record),
                                 LAMBDA p : IsFresh(p, cutoff))
    IN  [sent_posts |-> IF write = "ok" THEN fresh_posts ELSE posts,
         file |-> CASE fl.state = "unopenable" -> fl
                    [] write = "ok" -> dump(fresh_posts)
                    [] write = "partial" -> CorruptFile
                    [] OTHER -> fl]

\* save_post_record(text) at time now_; write is what happens to the file:
\* "ok", "open_failed" (open raises, file untouched), "partial" (json.dump
\* raises after the file was truncated); on a path that cannot be opened
\* open always raises
save_post_record(posts, fl, text, now_, write) ==
    LET record == [text |-> text, timestamp |-> now_]
        cutoff == now_ - timedelta_hours(MAX_HISTORY_HOURS)
        fresh_posts == SelectSeq(Append(posts, record),
                                 LAMBDA p : IsFresh(p, cutoff))
    IN  [sent_posts |-> fresh_posts,
         file |-> CASE fl.state = "unopenable" -> fl
                    [] write = "ok" -> dump(fresh_posts)
                    [] write = "partial" -> CorruptFile
                    [] OTHER -> fl]

\* line 155: p["text"] and datetime.fromisoformat(p["timestamp"]) do not
\* raise: the element has both keys and its timestamp is an ISO string
WellFormed(p) ==
    /\ {"text", "timestamp"} \subseteq DOMAIN p
    /\ Len(p.timestamp) = 4

\* load_sent_posts() in a fresh process (sent_posts = [] at import): a
\* missing file leaves the list empty (line 162); open() at line 151 is
\* outside the try and its exception leaves load_sent_posts; json.load or
\* any element raising inside the try empties the list (lines 152-161)
load_sent_posts(fl) ==
    IF fl.state = "unopenable"
    THEN [raised |-> TRUE, sent_posts |-> << >>]
    ELSE IF fl.state = "ok"
            /\ \A k \in 1 .. Len(fl.data) : WellFormed(fl.data[k])
    THEN [raised |-> FALSE,
          sent_posts |->
              [k \in 1 .. Len(fl.data) |->
                 [text |-> fl.data[k].text,
                  timestamp |-> fromisoformat(fl.data[k].timestamp)]]]
    ELSE [raised |-> FALSE, sent_posts |-> << >>]

\* ------------------------------------------------------------ rewrite
\* What the Gemini endpoint can answer: the POST raising (line 103), a status
\* other than 200, a 200 whose body is not JSON (response.json() raises, line
\* 105), a JSON body without candidates[0].content.parts[0].text, a text the
\* regular expression does not match, and a well-formed answer.
FailedKinds == {"conn_error", "status_500", "bad_json", "missing_keys", "no_match"}

RewriteTexts == {"t0x"}

Responses ==
    {[kind |-> k, title |-> "", text |-> ""] : k \in FailedKinds}
    \cup {[kind |-> "ok", title |-> "X2", text |-> t] : t \in RewriteTexts}

rewrite_with_gemini(title, text, resp) ==
    CASE resp.kind \in {"conn_error", "bad_json"} ->
             [raised |-> TRUE, title |-> title, text |-> text]
      [] resp.kind = "ok" ->
             [raised |-> FALSE, title |-> resp.title, text |-> resp.text]
      [] OTHER ->
             [raised |-> FALSE, title |-> title, text |-> text]

\* ------------------------------------------------------------ entries
\* A feed entry: title, summary (<< >> when absent, else one HTML document
\* given by its text and the src of its img tags), enclosures, and
\* published_parsed (<< >> when absent, else << t >>).
Entry(title, text, imgs, enclosures, published) ==
    [title |-> title,
     summary |-> << [text |-> text, imgs |-> imgs] >>,
     enclosures |-> enclosures,
     published_parsed |-> published]

BareEntry(title, enclosures) ==
    [title |-> title, summary |-> << >>, enclosures |-> enclosures,
     published_parsed |-> << >>]

\* BeautifulSoup(html).get_text()
clean_html(html) == html.text

\* lines 39-52: the src of the img tags that have a non-empty one (line 46),
\* and the url of the last video enclosure
extract_media(entry) ==
    LET photos == IF entry.summary # << >>
                  THEN SelectSeq(entry.summary[1].imgs, LAMBDA url : url # "")
                  ELSE << >>
        videos == SelectSeq(entry.enclosures, LAMBDA e : e.type = "video")
    IN  [photos |-> photos,
         video |-> IF videos = << >> THEN "" ELSE videos[Len(videos)].url]

\* ------------------------------------------------------------ send_post
Writes == {"ok", "open_failed", "partial"}

\* The surroundings of one run of the bot.  The combinations of feed
\* contents, network timing and faults are too many to explore at once, so a
\* run takes place in one of three surroundings, fixed when it starts:
\*   dispatch  full feeds, a rewrite service that is down, no other fault,
\*             no time spent outside the sleeps;
\*   window    small feeds of similar texts, slow publishes and fetches that
\*             take about a day;
\*   faults    every answer of the rewrite service, a failing encoder,
\*             failing writes of the history file, feeds that cannot be sorted.
Worlds == {"dispatch", "window", "faults"}

WorldResponses(w) ==
    IF w = "faults" THEN Responses
    ELSE {r \in Responses : r.kind = "status_500"}

WorldEncoder(w) == IF w = "faults" THEN BOOLEAN ELSE {TRUE}

WorldWrites(w) == IF w = "faults" THEN Writes ELSE {"ok"}

WorldLatency(w) == IF w = "window" THEN Latency ELSE {0}

WorldWaits(w) ==
    CASE w = "window" -> {0} \cup LongWaits
      [] w = "faults" -> {0, LongWait}
      [] OTHER -> {0}

\* What the environment does during one send_post: the answer of the
\* rewrite service and how long it takes, whether the encoder works, whether
\* the bot call succeeds and how long it takes, and what happens to the
\* history file.  A choice
\* that cannot matter (the bot after an exception, the file after a failed
\* publish) is left at its first value.
Envs(w) ==
    { e \in [resp : WorldResponses(w), embed_ok : WorldEncoder(w),
             send_ok : BOOLEAN, write : WorldWrites(w),
             lat_rewrite : WorldLatency(w), lat_send : WorldLatency(w)] :
        /\ (e.resp.kind \in {"conn_error", "bad_json"} \/ ~e.embed_ok)
              => (e.send_ok /\ e.lat_send = 0 /\ e.write = "ok")
        /\ ~e.send_ok => e.write = "ok" }

Result(outcome, raised, success, posts, fl, sent, now_) ==
    [outcome |-> outcome, raised |-> raised, success |-> success,
     sent_posts |-> posts, file |-> fl, sent |-> sent, now |-> now_]

\* variant: the record is saved before the bot call, so also when it raises
try_publish_saves_first(entry, title, text, posts, fl, now_, env) ==
    LET done == now_ + env.lat_send
        saved == save_post_record(posts, fl, text, done, env.write)
        message == [method |-> "send_message", title |-> title, text |-> text]
    IN  IF env.send_ok
        THEN Result("sent", FALSE, TRUE, saved.sent_posts, saved.file,
                    << message >>, done)
        ELSE Result("publish_failed", FALSE, FALSE, saved.sent_posts,
                    saved.file, << >>, done)

\* lines 128-146: the try block around the bot call and save_post_record
try_publish(entry, title, text, posts, fl, now_, env) ==
    LET media == extract_media(entry)
        method == IF media.video # "" THEN "send_video"
                  ELSE IF media.photos # << >> THEN "send_media_group"
                  ELSE "send_message"
        message == [method |-> method, title |-> title, text |-> text]
        done == now_ + env.lat_send
        saved == save_post_record(posts, fl, text, done, env.write)
    IN  IF env.send_ok
        THEN Result("sent", FALSE, TRUE, saved.sent_posts, saved.file,
                    << message >>, done)
        ELSE Result("publish_failed", FALSE, FALSE, posts, fl, << >>, done)

\* variant: a duplicate is skipped but its text is recorded in the history
send_post_keeps_duplicates(entry, posts, fl, now_, env) ==
    LET title == entry.title
        raw_text == IF entry.summary # << >>
                    THEN clean_html(entry.summary[1]) ELSE ""
        uniq == rewrite_with_gemini(title, raw_text, env.resp)
        asked == now_ + env.lat_rewrite
        saved == save_post_record(posts, fl, uniq.text, asked, env.write)
    IN  IF uniq.raised
        THEN Result("rewrite_raised", TRUE, FALSE, posts, fl, << >>, asked)
        ELSE IF ~env.embed_ok
        THEN Result("encode_raised", TRUE, FALSE, posts, fl, << >>, asked)
        ELSE IF is_duplicate(uniq.text, posts, asked)
        THEN Result("duplicate", FALSE, FALSE, saved.sent_posts, saved.file,
                    << >>, asked)
        ELSE try_publish(entry, uniq.title, uniq.text, posts, fl, asked, env)

\* lines 118-126, then try_publish.  The awaited rewrite (line 121) takes
\* lat_rewrite seconds, whatever its answer; is_duplicate reads the clock
\* after it (line 60).
send_post(entry, posts, fl, now_, env) ==
    LET title == entry.title
        raw_text == IF entry.summary # << >>
                    THEN clean_html(entry.summary[1]) ELSE ""
        uniq == rewrite_with_gemini(title, raw_text, env.resp)
        asked == now_ + env.lat_rewrite
    IN  IF uniq.raised
        THEN Result("rewrite_raised", TRUE, FALSE, posts, fl, << >>, asked)
        ELSE IF ~env.embed_ok
        THEN Result("encode_raised", TRUE, FALSE, posts, fl, << >>, asked)
        ELSE IF is_duplicate(uniq.text, posts, asked)
        THEN Result("duplicate", FALSE, FALSE, posts, fl, << >>, asked)
        ELSE try_publish(entry, uniq.title, uniq.text, posts, fl, asked, env)

\* ------------------------------------------------------------ feeds
\* line 174: the sort key is published_parsed (a time.struct_time) or, when
\* that is missing, datetime.utcnow(); the two do not compare (TypeError)
KeyKind(e) == IF e.published_parsed # << >> THEN "struct_time" ELSE "datetime"

SortRaises(feed) ==
    \E a, b \in 1 .. Len(feed) : KeyKind(feed[a]) # KeyKind(feed[b])

RECURSIVE Insert(_, _)
\* stable insertion of e into the sorted s
Insert(e, s) ==
    IF s = << >> THEN << e >>
    ELSE IF Head(s).published_parsed[1] <= e.published_parsed[1]
         THEN << Head(s) >> \o Insert(e, Tail(s))
    ELSE << e >> \o s

RECURSIVE sorted_upto(_, _)
sorted_upto(feed, n) ==
    IF n = 0 THEN << >> ELSE Insert(feed[n], sorted_upto(feed, n - 1))

\* sorted(feed.entries, key=...) when it does not raise: keys that are all
\* utcnow() values are non-decreasing, and the stable sort keeps the order
sorted(feed) ==
    IF \A k \in 1 .. Len(feed) : KeyKind(feed[k]) = "datetime"
    THEN feed
    ELSE sorted_upto(feed, Len(feed))

FeedFive ==
    << << Entry("A", "t3", << >>, << >>, << 2 >>),
          Entry("B", "t0", << >>, << >>, << 1 >>) >>,
       << >>,
       << Entry("C", "t4", << >>, << >>, << 9 >>),
          Entry("D", "t1", << >>, << >>, << 3 >>),
          Entry("F", "t2", << >>, << >>, << 5 >>) >> >>

FeedEmpty == << << >>, << >>, << >> >>

FeedNear ==
    << << Entry("Z", "t0", << >>, << [type |-> "image", url |-> "i1"] >>, << >>) >>,
       << Entry("X", "t0x", << "", "img1" >>, << >>, << >>) >>,
       << Entry("D", "t1", << >>, << >>, << >>) >> >>

FeedBare ==
    << << BareEntry("Y", << [type |-> "video", url |-> "v1"] >>),
          Entry("Z", "t0", << >>, << >>, << >>) >>,
       << >>,
       << >> >>

FeedMixed ==
    << << Entry("A", "t0", << >>, << >>, << 1 >>),
          Entry("B", "t1", << >>, << >>, << >>) >>,
       << >>,
       << >> >>

\* what feedparser.parse returns for the URLs of RSS_FEED_URLS in one cycle
WorldFeeds(w) ==
    CASE w = "dispatch" -> {FeedFive, FeedEmpty}
      [] w = "window" -> {FeedNear}
      [] OTHER -> {FeedBare, FeedMixed}

RECURSIVE MaxOf(_, _)
MaxOf(entries, n) ==
    IF n = 0 THEN 0
    ELSE IF Len(entries[n]) > MaxOf(entries, n - 1)
         THEN Len(entries[n]) ELSE MaxOf(entries, n - 1)

\* line 177
max_len(entries) == MaxOf(entries, Len(entries))

RECURSIVE first_feed_from(_, _)
first_feed_from(entries, f_) ==
    IF f_ >= Len(entries) THEN [i |-> max_len(entries), feed_idx |-> 0]
    ELSE IF Len(entries[f_ + 1]) > 0 THEN [i |-> 0, feed_idx |-> f_]
    ELSE first_feed_from(entries, f_ + 1)

\* variant: the two loops exchanged, a feed is emptied before the next one
\* is begun
next_entry_feed_major(entries, i_, f_) ==
    IF f_ > 0 /\ i_ + 1 < Len(entries[f_])
    THEN [i |-> i_ + 1, feed_idx |-> f_ - 1]
    ELSE first_feed_from(entries, f_)

RECURSIVE next_entry(_, _, _)
\* lines 180-183: the first position at or after (i_, f_), in the order of
\* the two nested for loops, that holds an entry; i = max_len when none does
next_entry(entries, i_, f_) ==
    IF i_ >= max_len(entries) THEN [i |-> max_len(entries), feed_idx |-> 0]
    ELSE IF f_ >= Len(entries) THEN next_entry(entries, i_ + 1, 0)
    ELSE IF i_ < Len(entries[f_ + 1]) THEN [i |-> i_, feed_idx |-> f_]
    ELSE next_entry(entries, i_, f_ + 1)

\* variant: the pause comes one publish late
BurstReachedLate(sent) == sent > BurstLimit

\* line 190
BurstReached(sent) == sent >= BurstLimit

\* ------------------------------------------------------------ state
VARIABLES
    world,               \* the surroundings of this run
    sent_posts,          \* the global list of {text, timestamp}
    file,                \* sent_posts.json
    now,                 \* the clock: what datetime.utcnow() returns
    channel,             \* the messages delivered to the Telegram channel
    pc,                  \* where main_loop is: fetch, send, pace, pause, crashed
    all_entries,         \* the sorted feeds of the current cycle
    i,                   \* the round-robin index of the entry to send
    feed_idx,            \* and its feed
    sent_in_this_round,
    attempts,            \* calls of send_post so far
    step,                \* the step taken last
    outcome,             \* how the last send_post ended
    processed,           \* << feed_idx, i >> of the entries given to send_post
                         \* in the current cycle, in order
    since_entry,         \* the sleep made since the last send_post
    since_fetch,         \* whether the loop slept since the last fetch
    round,               \* IDLE, RUNNING, PAUSED, ROUND_DONE
    written              \* how the write of the last save_post_record ended

vars ==
    << world, sent_posts, file, now, channel, pc, all_entries, i, feed_idx,
       sent_in_this_round, attempts, step, outcome, processed, since_entry,
       since_fetch, round, written >>

\* The process is started for the first time: no history file yet.
Init ==
    /\ world \in Worlds
    /\ sent_posts = load_sent_posts(NoFile).sent_posts
    /\ file = NoFile
    /\ now = 0
    /\ channel = << >>
    /\ pc = "fetch"
    /\ all_entries = << >>
    /\ i = 0
    /\ feed_idx = 0
    /\ sent_in_this_round = 0
    /\ attempts = 0
    /\ step = "start"
    /\ outcome = "none"
    /\ processed = << >>
    /\ since_entry = "none"
    /\ since_fetch = FALSE
    /\ round = "IDLE"
    /\ written = "none"

\* lines 167-178 (and 180-183 up to the first entry): one fetch of all feeds
FetchFeeds ==
    /\ pc = "fetch"
    /\ \E feeds \in WorldFeeds(world), wait \in WorldWaits(world) :
         /\ now + wait <= MaxDays * 86400
         /\ now' = now + wait
         /\ IF \E k \in 1 .. Len(feeds) : SortRaises(feeds[k])
            THEN \E bad \in {k \in 1 .. Len(feeds) :
                                 /\ SortRaises(feeds[k])
                                 /\ \A j \in 1 .. k - 1 : ~SortRaises(feeds[j])} :
                 /\ pc' = "crashed"
                 /\ all_entries' = [k \in 1 .. bad - 1 |-> sorted(feeds[k])]
                 /\ round' = "IDLE"
                 /\ UNCHANGED << i, feed_idx, sent_in_this_round >>
            ELSE \E entries \in {[k \in 1 .. Len(feeds) |-> sorted(feeds[k])]} :
                 \E first \in {next_entry(entries, 0, 0)} :
                 /\ all_entries' = entries
                 /\ sent_in_this_round' = 0
                 /\ i' = first.i
                 /\ feed_idx' = first.feed_idx
                 /\ pc' = IF first.i < max_len(entries) THEN "send" ELSE "fetch"
                 /\ round' = IF first.i < max_len(entries)
                             THEN "RUNNING" ELSE "ROUND_DONE"
    /\ step' = "fetch"
    /\ processed' = << >>
    /\ since_fetch' = FALSE
    /\ UNCHANGED << world, written, sent_posts, file, channel, attempts, outcome,
                    since_entry >>

\* lines 183-193: send_post for the entry at (i, feed_idx) and the count
ProcessEntry ==
    /\ pc = "send"
    /\ attempts < MaxAttempts
    /\ \E env \in Envs(world) :
       \E r \in {send_post(all_entries[feed_idx + 1][i + 1], sent_posts, file,
                           now, env)} :
       \E sent \in {IF r.success THEN sent_in_this_round + 1
                    ELSE sent_in_this_round} :
         /\ sent_posts' = r.sent_posts
         /\ file' = r.file
         /\ now' = r.now
         /\ channel' = channel \o r.sent
         /\ outcome' = r.outcome
         /\ sent_in_this_round' = sent
         /\ pc' = IF r.raised THEN "crashed"
                  ELSE IF r.success /\ BurstReached(sent) THEN "pause"
                  ELSE "pace"
         /\ round' = IF ~r.raised /\ r.success /\ BurstReached(sent)
                     THEN "PAUSED" ELSE round
         /\ written' = IF r.outcome # "sent" THEN written
                        ELSE IF file.state = "unopenable" THEN "open_failed"
                        ELSE env.write
    /\ attempts' = attempts + 1
    /\ step' = "send"
    /\ processed' = Append(processed, << feed_idx, i >>)
    /\ since_entry' = "none"
    /\ UNCHANGED << world, all_entries, i, feed_idx, since_fetch >>

\* variant: the 30-second sleep is made only after a successful publish
PaceSleepOnlyAfterSuccess ==
    /\ pc = "pace"
    /\ now' = IF outcome = "sent" THEN now + PaceSeconds ELSE now
    /\ \E nxt \in {next_entry(all_entries, i, feed_idx + 1)} :
           /\ i' = nxt.i
           /\ feed_idx' = nxt.feed_idx
           /\ pc' = IF nxt.i < max_len(all_entries) THEN "send" ELSE "fetch"
           /\ round' = IF nxt.i < max_len(all_entries) THEN round ELSE "ROUND_DONE"
    /\ step' = "pace"
    /\ since_entry' = IF outcome = "sent" THEN "pace" ELSE since_entry
    /\ since_fetch' = (since_fetch \/ outcome = "sent")
    /\ UNCHANGED << world, written, sent_posts, file, channel, all_entries,
                    sent_in_this_round, attempts, outcome, processed >>

\* variant: an entry whose publish failed is given to send_post again
PaceSleepRetriesFailure ==
    /\ pc = "pace"
    /\ now' = now + PaceSeconds
    /\ \E nxt \in {IF outcome = "publish_failed"
                    THEN [i |-> i, feed_idx |-> feed_idx]
                    ELSE next_entry(all_entries, i, feed_idx + 1)} :
           /\ i' = nxt.i
           /\ feed_idx' = nxt.feed_idx
           /\ pc' = IF nxt.i < max_len(all_entries) THEN "send" ELSE "fetch"
           /\ round' = IF nxt.i < max_len(all_entries) THEN round ELSE "ROUND_DONE"
    /\ step' = "pace"
    /\ since_entry' = "pace"
    /\ since_fetch' = TRUE
    /\ UNCHANGED << world, written, sent_posts, file, channel, all_entries,
                    sent_in_this_round, attempts, outcome, processed >>

\* line 195, then on to the next entry of the round (lines 180-183)
PaceSleep ==
    /\ pc = "pace"
    /\ now' = now + PaceSeconds
    /\ \E nxt \in {next_entry(all_entries, i, feed_idx + 1)} :
           /\ i' = nxt.i
           /\ feed_idx' = nxt.feed_idx
           /\ pc' = IF nxt.i < max_len(all_entries) THEN "send" ELSE "fetch"
           /\ round' = IF nxt.i < max_len(all_entries) THEN round ELSE "ROUND_DONE"
    /\ step' = "pace"
    /\ since_entry' = "pace"
    /\ since_fetch' = TRUE
    /\ UNCHANGED << world, written, sent_posts, file, channel, all_entries,
                    sent_in_this_round, attempts, outcome, processed >>

\* lines 191-193 and 199: the burst pause, which ends the round
PauseSleep ==
    /\ pc = "pause"
    /\ now' = now + DELAY_SECONDS
    /\ pc' = "fetch"
    /\ round' = "ROUND_DONE"
    /\ step' = "pause"
    /\ since_entry' = "pause"
    /\ since_fetch' = TRUE
    /\ UNCHANGED << world, written, sent_posts, file, channel, all_entries, i,
                    feed_idx, sent_in_this_round, attempts, outcome,
                    processed >>

\* lines 202-204: the crashed process is started again
Restart ==
    /\ pc = "crashed"
    /\ sent_posts' = load_sent_posts(file).sent_posts
    /\ pc' = IF load_sent_posts(file).raised THEN "crashed" ELSE "fetch"
    /\ all_entries' = << >>
    /\ i' = 0
    /\ feed_idx' = 0
    /\ sent_in_this_round' = 0
    /\ step' = "restart"
    /\ outcome' = "none"
    /\ processed' = << >>
    /\ since_entry' = "none"
    /\ since_fetch' = FALSE
    /\ round' = "IDLE"
    /\ UNCHANGED << world, written, file, now, channel, attempts >>

Next == FetchFeeds \/ ProcessEntry \/ PaceSleep \/ PauseSleep \/ Restart

Spec == Init /\ [][Next]_vars

\* ------------------------------------------------------------ a found file
\* What can be found at sent_posts.json: nothing, something that cannot be
\* opened, a file that is no JSON, or a JSON array.  Its elements can be: a
\* record as save_post_record writes it, one whose timestamp is not an ISO
\* string, one without its timestamp, and an element that is no object.
GoodRecord(text) == [text |-> text, timestamp |-> isoformat(0)]

BadStamp(text) == [text |-> text, timestamp |-> << >>]

NoStamp(text) == [text |-> text]

NoObject == [value |-> "x"]

FoundFiles ==
    {NoFile, CorruptFile, UnopenableFile}
    \cup {[state |-> "ok", data |-> d] :
            d \in {<< >>,
                   << GoodRecord("t1") >>,
                   << GoodRecord("t1"), GoodRecord("t2") >>,
                   << GoodRecord("t1"), BadStamp("t2") >>,
                   << NoStamp("t1"), GoodRecord("t2") >>,
                   << GoodRecord("t1"), NoObject, GoodRecord("t2") >>}}

WorldFiles(w) == IF w = "faults" THEN FoundFiles ELSE {NoFile}

\* lines 202-204: the process is started where an earlier run, an editor or a
\* broken disk left some sent_posts.json
InitLoad ==
    /\ world \in Worlds
    /\ file \in WorldFiles(world)
    /\ sent_posts = load_sent_posts(file).sent_posts
    /\ now = 0
    /\ channel = << >>
    /\ pc = IF load_sent_posts(file).raised THEN "crashed" ELSE "fetch"
    /\ all_entries = << >>
    /\ i = 0
    /\ feed_idx = 0
    /\ sent_in_this_round = 0
    /\ attempts = 0
    /\ step = "start"
    /\ outcome = "none"
    /\ processed = << >>
    /\ since_entry = "none"
    /\ since_fetch = FALSE
    /\ round = "IDLE"
    /\ written = "none"

SpecLoad == InitLoad /\ [][Next]_vars

\* ------------------------------------------------------------ the long run
\* The loop left running for ever where claim C19 puts it: the feeds report
\* the same entries at every fetch, the rewrite service always fails in the
\* same way (the entry's own text is published), the encoder, the bot and the
\* file never fail, and no call takes time.  The clock and the timestamps are
\* kept relative to the present, now = 0 after every step and a timestamp
\* minus the age of its record, since the code reads them only through their
\* differences (lines 64 and 81-82); the channel keeps the messages of the
\* last send_post only and the calls are not counted, so that the run has
\* finitely many states.
FairWorlds == {"short_pause", "long_pause"}

\* line 23: DELAY_SECONDS as configured, a minute or a day
Delay(w) ==
    IF w = "long_pause"
    THEN timedelta_hours(MAX_HISTORY_HOURS) ELSE DELAY_SECONDS

FairFeeds == FeedFive

FairEnv ==
    [resp |-> [kind |-> "status_500", title |-> "", text |-> ""],
     embed_ok |-> TRUE, send_ok |-> TRUE, write |-> "ok", lat_rewrite |-> 0,
     lat_send |-> 0]

\* the history seen d seconds later
Shift(posts, d) ==
    [k \in 1 .. Len(posts) |->
       [text |-> posts[k].text, timestamp |-> posts[k].timestamp - d]]

ShiftFile(fl, d) ==
    IF fl.state = "ok"
    THEN dump(Shift(load_sent_posts(fl).sent_posts, d)) ELSE fl

InitFair ==
    /\ world \in FairWorlds
    /\ sent_posts = load_sent_posts(NoFile).sent_posts
    /\ file = NoFile
    /\ now = 0
    /\ channel = << >>
    /\ pc = "fetch"
    /\ all_entries = << >>
    /\ i = 0
    /\ feed_idx = 0
    /\ sent_in_this_round = 0
    /\ attempts = 0
    /\ step = "start"
    /\ outcome = "none"
    /\ processed = << >>
    /\ since_entry = "none"
    /\ since_fetch = FALSE
    /\ round = "IDLE"
    /\ written = "none"

\* lines 167-178 (and 180-183 up to the first entry)
FairFetch ==
    /\ pc = "fetch"
    /\ \E entries \in {[k \in 1 .. Len(FairFeeds) |-> sorted(FairFeeds[k])]} :
       \E first \in {next_entry(entries, 0, 0)} :
         /\ all_entries' = entries
         /\ sent_in_this_round' = 0
         /\ i' = first.i
         /\ feed_idx' = first.feed_idx
         /\ pc' = IF first.i < max_len(entries) THEN "send" ELSE "fetch"
         /\ round' = IF first.i < max_len(entries)
                     THEN "RUNNING" ELSE "ROUND_DONE"
    /\ step' = "fetch"
    /\ processed' = << >>
    /\ since_fetch' = FALSE
    /\ UNCHANGED << world, written, sent_posts, file, now, channel, attempts,
                    outcome, since_entry >>

\* lines 183-193
FairProcessEntry ==
    /\ pc = "send"
    /\ \E r \in {send_post(all_entries[feed_idx + 1][i + 1], sent_posts, file,
                           now, FairEnv)} :
       \E sent \in {IF r.success THEN sent_in_this_round + 1
                    ELSE sent_in_this_round} :
         /\ sent_posts' = Shift(r.sent_posts, r.now)
         /\ file' = ShiftFile(r.file, r.now)
         /\ now' = 0
         /\ channel' = r.sent
         /\ outcome' = r.outcome
         /\ sent_in_this_round' = sent
         /\ pc' = IF r.raised THEN "crashed"
                  ELSE IF r.success /\ BurstReached(sent) THEN "pause"
                  ELSE "pace"
         /\ round' = IF ~r.raised /\ r.success /\ BurstReached(sent)
                     THEN "PAUSED" ELSE round
         /\ written' = IF r.outcome = "sent" THEN FairEnv.write ELSE written
    /\ step' = "send"
    /\ processed' = Append(processed, << feed_idx, i >>)
    /\ since_entry' = "none"
    /\ UNCHANGED << world, all_entries, i, feed_idx, since_fetch, attempts >>

\* line 195, then on to the next entry of the round (lines 180-183)
FairPaceSleep ==
    /\ pc = "pace"
    /\ sent_posts' = Shift(sent_posts, PaceSeconds)
    /\ file' = ShiftFile(file, PaceSeconds)
    /\ \E nxt \in {next_entry(all_entries, i, feed_idx + 1)} :
           /\ i' = nxt.i
           /\ feed_idx' = nxt.feed_idx
           /\ pc' = IF nxt.i < max_len(all_entries) THEN "send" ELSE "fetch"
           /\ round' = IF nxt.i < max_len(all_entries) THEN round ELSE "ROUND_DONE"
    /\ step' = "pace"
    /\ since_entry' = "pace"
    /\ since_fetch' = TRUE
    /\ UNCHANGED << world, written, now, channel, all_entries,
                    sent_in_this_round, attempts, outcome, processed >>

\* lines 191-193 and 199
FairPauseSleep ==
    /\ pc = "pause"
    /\ sent_posts' = Shift(sent_posts, Delay(world))
    /\ file' = ShiftFile(file, Delay(world))
    /\ pc' = "fetch"
    /\ round' = "ROUND_DONE"
    /\ step' = "pause"
    /\ since_entry' = "pause"
    /\ since_fetch' = TRUE
    /\ UNCHANGED << world, written, now, channel, all_entries, i, feed_idx,
                    sent_in_this_round, attempts, outcome, processed >>

NextFair == FairFetch \/ FairProcessEntry \/ FairPaceSleep \/ FairPauseSleep

\* asyncio keeps running the one task: a step that can be taken is taken
SpecFair == InitFair /\ [][NextFair]_vars /\ WF_vars(NextFair)

\* ------------------------------------------------------------ claims
Window == MAX_HISTORY_HOURS * 3600

Texts == {"t0", "t1", "t2", "t3", "t4", "t0x", ""}

Similarity(a, b) == pytorch_cos_sim(encode(a), encode(b))

\* the positions << feed_idx, i >> of the entries of the current cycle
Positions ==
    { << f, k >> : f \in 0 .. Len(all_entries) - 1,
                   k \in 0 .. max_len(all_entries) - 1 }

ValidPositions == { p \in Positions : p[2] < Len(all_entries[p[1] + 1]) }

\* round-robin order: by index, then by feed
RRBefore(p, q) == p[2] < q[2] \/ (p[2] = q[2] /\ p[1] < q[1])

Processed == { processed[k] : k \in 1 .. Len(processed) }

FeedLengths == [k \in 1 .. Len(all_entries) |-> Len(all_entries[k])]

\* C1: with burst limit 3, sent_in_this_round starts a round at 0 and never
\* exceeds 3; the third successful publish of a round puts the loop into the
\* pause (RUNNING -> PAUSED), no entry is given to send_post once three were
\* sent, and the pause sleeps DELAY_SECONDS and ends the round (ROUND_DONE)
\* with the entries processed so far, the next step being a new fetch.
C1_BurstPause ==
    /\ [](sent_in_this_round \in 0 .. BurstLimit)
    /\ [][ /\ (step' = "fetch" /\ pc' # "crashed") => sent_in_this_round' = 0
           /\ step' = "send" => sent_in_this_round < BurstLimit
           /\ (step' = "send" /\ outcome' = "sent"
                 /\ sent_in_this_round' = BurstLimit)
                => (pc' = "pause" /\ round = "RUNNING" /\ round' = "PAUSED")
           /\ pc = "pause"
                => /\ step' = "pause"
                   /\ now' = now + DELAY_SECONDS
                   /\ round' = "ROUND_DONE"
                   /\ pc' = "fetch"
                   /\ processed' = processed
           /\ (step = "pause" /\ pc = "fetch") => step' = "fetch" ]_vars

\* a round of five publishable entries ended by the pause after three
C1_Witness ==
    /\ step = "pause"
    /\ round = "ROUND_DONE"
    /\ sent_in_this_round = 3
    /\ Len(processed) = 3
    /\ Cardinality(ValidPositions) = 5

\* C2: in a cycle the entries given to send_post are, in order, a prefix of
\* the round-robin order (index by index, feeds in source order, existing
\* entries only), each at most once; a round that ends without the burst
\* pause has processed every entry, and feeds of lengths 2, 0, 3 then give
\* the source order 0, 2, 0, 2, 2.
C2_RoundRobinOrder ==
    /\ Processed \subseteq ValidPositions
    /\ \A k \in 1 .. Len(processed) - 1 : RRBefore(processed[k], processed[k + 1])
    /\ \A q \in ValidPositions : \A k \in 1 .. Len(processed) :
          RRBefore(q, processed[k]) => q \in Processed
    /\ (round = "ROUND_DONE" /\ step # "pause")
          => /\ Processed = ValidPositions
             /\ Len(processed) = Cardinality(ValidPositions)
             /\ FeedLengths = << 2, 0, 3 >>
                  => [k \in 1 .. 5 |-> processed[k][1]] = << 0, 2, 0, 2, 2 >>

C2_Witness ==
    /\ round = "ROUND_DONE"
    /\ step = "pace"
    /\ FeedLengths = << 2, 0, 3 >>
    /\ Len(processed) = 5

\* C3: is_duplicate is true exactly when some record whose age is not
\* greater than MAX_HISTORY_HOURS has a similarity to the candidate strictly
\* greater than 0.60 (so not for an empty history, not for records outside
\* the window), and the comparison of line 68 is false for a similarity
\* equal to the threshold.
C3_IsDuplicateIff ==
    /\ ~ExceedsThreshold(DUPLICATE_THRESHOLD)
    /\ \A t \in Texts :
          is_duplicate(t, sent_posts, now)
             <=> \E k \in 1 .. Len(sent_posts) :
                    /\ now - sent_posts[k].timestamp <= Window
                    /\ Similarity(t, sent_posts[k].text) > DUPLICATE_THRESHOLD

\* a history with a record just below the threshold (0.5625) of a candidate
\* that is no duplicate, a record above the threshold but outside the window
\* of such a candidate, and a duplicate of a record aged exactly the window
C3_Witness ==
    /\ \E t \in Texts :
          /\ ~is_duplicate(t, sent_posts, now)
          /\ \E k \in 1 .. Len(sent_posts) :
                /\ now - sent_posts[k].timestamp <= Window
                /\ Similarity(t, sent_posts[k].text) = 5625
          /\ \E k \in 1 .. Len(sent_posts) :
                /\ now - sent_posts[k].timestamp > Window
                /\ Similarity(t, sent_posts[k].text) > DUPLICATE_THRESHOLD
    /\ \E t \in Texts :
          /\ is_duplicate(t, sent_posts, now)
          /\ \E k \in 1 .. Len(sent_posts) :
                /\ now - sent_posts[k].timestamp = Window
                /\ Similarity(t, sent_posts[k].text) > DUPLICATE_THRESHOLD

\* the round-robin successor of the current entry, if any
Following == { q \in ValidPositions : RRBefore(<< feed_idx, i >>, q) }

IsNextEntry(q) == q \in Following /\ \A r \in Following : r = q \/ RRBefore(q, r)

\* C4: a publish attempt that raises leaves sent_in_this_round, the history
\* in memory and on disk and the channel as they were and does not end the
\* round; the loop sleeps and goes on with the next entry of the round-robin
\* order (or ends the round when there is none).
C4_PublishFailure ==
    [][ /\ (step' = "send" /\ outcome' = "publish_failed")
             => /\ sent_in_this_round' = sent_in_this_round
                /\ sent_posts' = sent_posts
                /\ file' = file
                /\ channel' = channel
                /\ round' = round
                /\ pc' = "pace"
        /\ (pc = "pace" /\ outcome = "publish_failed")
             => /\ step' = "pace"
                /\ IF Following = { }
                   THEN pc' = "fetch" /\ round' = "ROUND_DONE"
                   ELSE /\ pc' = "send"
                        /\ round' = round
                        /\ IsNextEntry(<< feed_idx', i' >>) ]_vars

\* after a failed publish, with a history that is not empty, the loop is at
\* the next entry
C4_Witness ==
    /\ outcome = "publish_failed"
    /\ step = "pace"
    /\ pc = "send"
    /\ sent_posts # << >>
    /\ file.state = "ok"

\* C5: a duplicate is neither published nor recorded nor counted, and the
\* history in memory changes only by a successful publish, which appends
\* the record of the published text.
C5_DuplicateSkipped ==
    [][ /\ (step' = "send" /\ outcome' = "duplicate")
             => /\ channel' = channel
                /\ sent_posts' = sent_posts
                /\ file' = file
                /\ sent_in_this_round' = sent_in_this_round
        /\ file' # file => (step' = "send" /\ outcome' = "sent")
        /\ (sent_posts' # sent_posts /\ step' # "restart")
             => /\ step' = "send"
                /\ outcome' = "sent"
                /\ Len(channel') = Len(channel) + 1
                /\ sent_posts'[Len(sent_posts')]
                     = [text |-> channel'[Len(channel')].text,
                        timestamp |-> now'] ]_vars

C5_Witness ==
    /\ step = "send"
    /\ outcome = "duplicate"
    /\ sent_posts # << >>

\* C6: a failure of the embedding computation during the duplicate check of
\* an entry does not end the process: the entry is skipped, nothing is
\* published or recorded, and the loop goes on to its pacing sleep.
C6_EncoderFailureSkipsEntry ==
    [][ (step' = "send" /\ outcome' = "encode_raised")
           => /\ pc' = "pace"
              /\ channel' = channel
              /\ sent_posts' = sent_posts ]_vars

\* the text and title of the entry at the cursor, as the feed gave them
EntryAtCursor == all_entries[feed_idx + 1][i + 1]

OriginalText ==
    IF EntryAtCursor.summary # << >> THEN EntryAtCursor.summary[1].text ELSE ""

\* C7: the rewrite step never raises into send_post: no send_post ends with
\* an exception of the rewrite, and where the rewrite service only fails (the
\* dispatch and window surroundings) what is published is the entry's own
\* title and text.
C7_RewriteNeverRaises ==
    [][ step' = "send"
           => /\ outcome' # "rewrite_raised"
              /\ (world # "faults" /\ outcome' = "sent")
                    => /\ channel'[Len(channel')].title = EntryAtCursor.title
                       /\ channel'[Len(channel')].text = OriginalText ]_vars

\* C8 as stated: whenever an entry is given to send_post after another one,
\* the 30-second sleep has been made in between.
C8_PaceAfterEveryEntry ==
    [][ (step' = "send" /\ outcome # "none") => since_entry = "pace" ]_vars

\* C8 as amended: between two entries given to send_post the loop has slept:
\* 30 seconds after an entry that did not trigger the burst pause, and only
\* DELAY_SECONDS (no 30-second sleep) after the entry that did, which is the
\* third successful publish of its round and the last entry of that round.
C8_PaceOrPause ==
    [][ /\ (step' = "send" /\ outcome # "none")
              => since_entry \in {"pace", "pause"}
        /\ (step' = "send" /\ since_entry = "pause")
              => (outcome = "sent" /\ processed = << >>)
        /\ step' = "pace"
              => (since_entry' = "pace" /\ now' = now + PaceSeconds)
        /\ step' = "pause"
              => /\ since_entry' = "pause"
                 /\ now' = now + DELAY_SECONDS
                 /\ outcome = "sent"
                 /\ sent_in_this_round = BurstLimit
        /\ (step' = "send" /\ pc' # "crashed")
              => IF outcome' = "sent" /\ sent_in_this_round' = BurstLimit
                 THEN pc' = "pause" ELSE pc' = "pace"
        /\ pc = "pace" => step' = "pace"
        /\ pc = "pause" => step' = "pause" ]_vars

\* the first entry of a round is about to be processed right after the
\* burst pause of the round before
C8_Witness ==
    /\ pc = "send"
    /\ attempts < MaxAttempts
    /\ since_entry = "pause"
    /\ outcome = "sent"

\* C9: the feeds are never fetched again after a round is done without a
\* sleep since the previous fetch.
C9_SleepBeforeEveryRefetch ==
    [][ (step' = "fetch" /\ round = "ROUND_DONE") => since_fetch ]_vars

KeptByClaim(posts, t) ==
    SelectSeq(posts, LAMBDA p : ~(t - p.timestamp > Window))

\* C10: a successful publish leaves in the history exactly the records whose
\* age at the append is not greater than MAX_HISTORY_HOURS, in their order,
\* followed by the new record.
C10_AppendKeepsWindow ==
    [][ (step' = "send" /\ outcome' = "sent")
           => sent_posts'
                = Append(KeptByClaim(sent_posts, now'),
                         [text |-> channel'[Len(channel')].text,
                          timestamp |-> now']) ]_vars

\* send_post reached is_duplicate in the step just taken (lines 122-124)
Queried == step' = "send" /\ outcome' \in {"duplicate", "publish_failed", "sent"}

\* the texts send_post may give to is_duplicate for the entry at the cursor
Candidates == {OriginalText} \cup RewriteTexts

\* C11, as stated: whenever is_duplicate queries the history, every record
\* held in memory is at most MAX_HISTORY_HOURS old (already as send_post is
\* entered, the query being made no earlier).
C11_StoreWithinWindowAtQuery ==
    [][Queried =>
           \A k \in 1 .. Len(sent_posts) :
               now - sent_posts[k].timestamp <= Window]_vars

\* C11, amended: records older than MAX_HISTORY_HOURS may be held in memory
\* when is_duplicate queries the history, but the query skips them: a
\* candidate is reported as a duplicate only if a record at most
\* MAX_HISTORY_HOURS old at the query is similar to it, and right after every append all records
\* held are at most MAX_HISTORY_HOURS old.
C11_OldRecordsSkippedAtQuery ==
    [][/\ (step' = "send" /\ outcome' = "duplicate") =>
              \E k \in 1 .. Len(sent_posts), t \in Candidates :
                  /\ now' - sent_posts[k].timestamp <= Window
                  /\ Similarity(t, sent_posts[k].text) > DUPLICATE_THRESHOLD
       /\ (step' = "send" /\ outcome' = "sent") =>
              \A k \in 1 .. Len(sent_posts') :
                  now' - sent_posts'[k].timestamp <= Window]_vars

\* a query that found a duplicate while an expired record was held in memory
C11_Witness ==
    /\ step = "send"
    /\ outcome = "duplicate"
    /\ \E k \in 1 .. Len(sent_posts) : now - sent_posts[k].timestamp > Window

RECURSIVE IsSubseq(_, _)
\* a is b with some elements left out, the order kept
IsSubseq(a, b) ==
    IF a = << >> THEN TRUE
    ELSE IF b = << >> THEN FALSE
    ELSE IF Head(a) = Head(b) THEN IsSubseq(Tail(a), Tail(b))
    ELSE IsSubseq(a, Tail(b))

HistoryTexts == [k \in 1 .. Len(sent_posts) |-> sent_posts[k].text]

ChannelTexts == [k \in 1 .. Len(channel) |-> channel[k].text]

\* C12: each successful publish appends exactly one record, holding the
\* rewritten body text that was published, at the end of the history, the
\* records kept before it keeping their order; no other step changes the
\* history of a running process; so the records of the history are always in
\* the order in which their entries were published.
C12_AppendInPublishOrder ==
    /\ [](/\ IsSubseq(HistoryTexts, ChannelTexts)
          /\ \A k \in 1 .. Len(sent_posts) - 1 :
                 sent_posts[k].timestamp <= sent_posts[k + 1].timestamp)
    /\ [][/\ (step' = "send" /\ outcome' = "sent") =>
                 /\ Len(channel') = Len(channel) + 1
                 /\ sent_posts' # << >>
                 /\ Len(sent_posts') <= Len(sent_posts) + 1
                 /\ sent_posts'[Len(sent_posts')]
                        = [text |-> channel'[Len(channel')].text,
                           timestamp |-> now']
                 /\ SubSeq(sent_posts', 1, Len(sent_posts') - 1)
                        = SubSeq(sent_posts,
                                 Len(sent_posts) - Len(sent_posts') + 2,
                                 Len(sent_posts))
          /\ (step' # "restart" /\ ~(step' = "send" /\ outcome' = "sent")) =>
                 sent_posts' = sent_posts]_vars

\* a publish that appended its record behind the records of two earlier ones
C12_Witness ==
    /\ step = "send"
    /\ outcome = "sent"
    /\ Len(sent_posts) >= 3
    /\ HistoryTexts = SubSeq(ChannelTexts, Len(channel) - Len(sent_posts) + 1,
                             Len(channel))

\* C13: when the write of the history file fails during an append, the new
\* record stays at the end of the in-memory history, the publish counts as a
\* success (sent_in_this_round grows by one), the file is left as it was or
\* unreadable, and a duplicate check made from then on, while the record is
\* inside the window, reports the same text as a duplicate.
C13_WriteFailureKeepsRecord ==
    [][(step' = "send" /\ outcome' = "sent" /\ written' # "ok") =>
           /\ sent_posts' # << >>
           /\ sent_posts'[Len(sent_posts')]
                  = [text |-> channel'[Len(channel')].text, timestamp |-> now']
           /\ sent_in_this_round' = sent_in_this_round + 1
           /\ file' \in {file, CorruptFile}
           /\ \A later \in {0, PaceSeconds, DELAY_SECONDS} :
                  is_duplicate(channel'[Len(channel')].text, sent_posts',
                               now' + later)]_vars

\* an entry skipped as a duplicate of the one record in memory, which no
\* write ever put into the file
C13_Witness ==
    /\ step = "send"
    /\ outcome = "duplicate"
    /\ written = "open_failed"
    /\ file = NoFile
    /\ Len(sent_posts) = 1

\* C14: after an append whose write succeeded the file holds exactly the
\* pruned in-memory history (as many records, the same texts, timestamps that
\* read back as the ones in memory, the same order), and a process that
\* crashes after such an append has, once restarted and loaded, the history
\* it had in memory before: the same texts, timestamps and order.
C14_PersistenceRoundTrip ==
    [][/\ (step' = "send" /\ outcome' = "sent" /\ written' = "ok") =>
              /\ file'.state = "ok"
              /\ Len(file'.data) = Len(sent_posts')
              /\ \A k \in 1 .. Len(sent_posts') :
                     /\ file'.data[k].text = sent_posts'[k].text
                     /\ fromisoformat(file'.data[k].timestamp)
                            = sent_posts'[k].timestamp
              /\ load_sent_posts(file')
                     = [raised |-> FALSE, sent_posts |-> sent_posts']
       /\ (step' = "restart" /\ written = "ok") =>
              sent_posts' = sent_posts]_vars

\* a restarted process that loaded two records, one of them a day after the
\* first start
C14_Witness ==
    /\ step = "restart"
    /\ written = "ok"
    /\ Len(sent_posts) >= 2
    /\ sent_posts[Len(sent_posts)].timestamp >= 86400
    /\ load_sent_posts(file).sent_posts = sent_posts

Malformed(fl) ==
    fl.state = "ok" /\ \E k \in 1 .. Len(fl.data) : ~WellFormed(fl.data[k])

\* C15: whenever the process has just been started, load_sent_posts has
\* returned and main_loop is about to fetch, whatever was found at
\* sent_posts.json; the history is empty unless the file is a JSON array of
\* well-formed records (if any element is malformed none of the well-formed
\* ones is kept), and holds every record of the file otherwise.
C15_LoadNeverFails ==
    step \in {"start", "restart"} =>
        /\ pc = "fetch"
        /\ (file.state # "ok" \/ Malformed(file)) => sent_posts = << >>
        /\ (file.state = "ok" /\ ~Malformed(file)) =>
               /\ Len(sent_posts) = Len(file.data)
               /\ dump(sent_posts) = file

\* the order the claim gives a feed: ascending published_parsed, the entries
\* without one behind all the others
SortedAsClaimed(feed) ==
    \A a, b \in 1 .. Len(feed) :
        a < b =>
            /\ feed[a].published_parsed # << >> \/ feed[b].published_parsed = << >>
            /\ (feed[a].published_parsed # << >> /\ feed[b].published_parsed # << >>)
                   => feed[a].published_parsed[1] <= feed[b].published_parsed[1]

\* C16: every fetch ends with each feed sorted ascending by published
\* timestamp, the entries lacking one last, and the cycle goes on: sorting a
\* feed that mixes entries with and without a timestamp does not abort it.
C16_SortHandlesMissingTimestamps ==
    [][step' = "fetch" =>
           /\ pc' # "crashed"
           /\ \A f \in 1 .. Len(all_entries') :
                  SortedAsClaimed(all_entries'[f])]_vars

\* C17: within one round no entry is given to send_post twice, whatever the
\* outcome of its first attempt was; every fetch that finds an entry starts
\* the round anew at index 0 with nothing processed, so an entry is processed
\* again only in a later cycle whose fetch reports it.
C17_NoRetryWithinRound ==
    /\ [](Cardinality(Processed) = Len(processed))
    /\ [][/\ step' = "send" =>
                 /\ << feed_idx, i >> \notin Processed
                 /\ << feed_idx, i >> \in ValidPositions
                 /\ processed' = Append(processed, << feed_idx, i >>)
          /\ (step' = "send" /\ processed = << >>) => i = 0
          /\ (step' = "fetch" /\ pc' = "send") =>
                 /\ processed' = << >>
                 /\ i' = 0
                 /\ \A f \in 1 .. feed_idx' : all_entries'[f] = << >>
          /\ step' \in {"pace", "pause"} => processed' = processed]_vars

\* the first entry of the feeds failed in the first round, in which three
\* others were published, and is published in the second round
C17_Witness ==
    /\ world = "dispatch"
    /\ step = "send"
    /\ outcome = "sent"
    /\ processed = << << 0, 0 >> >>
    /\ Len(sent_posts) = 4
    /\ sent_posts[4].text = OriginalText

\* C18: in a process that started with an empty history, and in its restarts,
\* no two records held in memory together have a similarity above
\* DUPLICATE_THRESHOLD: a record is appended only after is_duplicate compared
\* its text with every record the append keeps.
C18_NoNearDuplicatePair ==
    \A j, k \in 1 .. Len(sent_posts) :
        j < k => Similarity(sent_posts[j].text, sent_posts[k].text)
                     <= DUPLICATE_THRESHOLD

\* a text published a second time, its first record expired and pruned, next
\* to a record that was inside the window at the check: two records in memory
C18_Witness ==
    /\ step = "send"
    /\ outcome = "sent"
    /\ Len(sent_posts) >= 2
    /\ \E m \in 1 .. Len(channel) - 1 :
           Similarity(channel[m].text, channel[Len(channel)].text)
               > DUPLICATE_THRESHOLD

\* the positions << feed_idx, i >> of the entries the fixed feeds report
FairPositions ==
    { << f, k >> : f \in 0 .. Len(FairFeeds) - 1,
                   k \in 0 .. max_len(FairFeeds) - 1 }

FairEntries == { p \in FairPositions : p[2] < Len(FairFeeds[p[1] + 1]) }

\* C19: with the feeds fixed, the rewrite deterministic and every publish
\* succeeding, every entry of the feeds is eventually given to send_post in
\* some cycle.
C19_NoStarvation == \A p \in FairEntries : <>(step = "send" /\ p \in Processed)

====
